---- MODULE Spec2Model ----
(***************************************************************************)
(* Model of the oil-field production analytics pipeline                    *)
(* (MarwanSaad20/oil_project): the orchestrator main.py and the steps it   *)
(* runs (scripts/cleaning.py, scripts/modeling.py, scripts/dashboard.py,   *)
(* scripts/utils.py).                                                      *)
(*                                                                         *)
(* One module, several specifications over the same variables: each        *)
(* specification drives one component and leaves the others idle.          *)
(*   SpecOrch      main.py: main and get_latest_cleaned_file               *)
(*   SpecClean     scripts/cleaning.py: main, on one raw table             *)
(*   SpecCleanText the same, on raw tables with text columns               *)
(*   SpecRuns      scripts/cleaning.py: main, run after run                *)
(*   SpecOutliers  handle_outliers applied repeatedly to one column        *)
(*   SpecNames     clean_column_names applied repeatedly to a header       *)
(*   SpecModeling  scripts/modeling.py: main, on one cleaned file          *)
(*   SpecDash      scripts/dashboard.py: main and its update_dashboard     *)
(*   SpecSessions  update_dashboard in concurrent browser sessions         *)
(***************************************************************************)
EXTENDS Integers, Sequences, FiniteSets, TLC

VARIABLES
    \* ---- main.py -------------------------------------------------------
    argv,         \* the values given to --steps (<<>>: option not given)
    steps,        \* args.steps after parse_args
    pc,           \* position of main.py main
    trace,        \* steps started and lookups made, in order
    latest_file,  \* main's local latest_file
    passed,       \* the path each started downstream step received
    failed,       \* the step whose exception main caught, or None
    printed,      \* the final success message was printed
    completed,    \* the steps whose function ran to its end
    files,        \* data/processed: each cleaned file in it -> its mtime
    today,        \* datetime.now().strftime("%Y%m%d") of this run
    now,          \* mtime a file written by this run receives
    \* ---- scripts/cleaning.py, scripts/utils.py -------------------------
    raw_exists,   \* data/raw/oil_field_production_data.csv exists
    raw,          \* the table that file holds
    cpc,          \* position of cleaning.py main
    df,           \* cleaning.py main's local df
    before,       \* df as it was when handle_outliers was last called
    calls,        \* how often the operation under study has been applied
    written,      \* what save_dataframe wrote to each file it has written
    runlog,       \* the completed cleaner runs: date and output, in order
    \* ---- scripts/modeling.py -------------------------------------------
    mexists,      \* the file at input_path exists
    mcols,        \* the columns of the table in that file
    mpc,          \* position of modeling.py main
    df_model,     \* columns of preprocess_for_modeling's df_model
    mtrace,       \* what the modeler has done: split, fit, figure, report
    merr,         \* the exception modeling.py main raised, or None
    \* ---- scripts/dashboard.py ------------------------------------------
    dexists,      \* the file at input_path exists
    dcsv,         \* the rows of that file
    dpc,          \* position of dashboard.py main
    base,         \* dashboard.py main's df, the table the callbacks close over
    dfield,       \* field of the last update_dashboard call
    dstart,       \* start_date of that call
    dend,         \* end_date of that call
    df_filtered,  \* df_filtered of that call
    dresult,      \* how that call ended
    sess          \* the update_dashboard call each browser session has
                  \* running or has last run: its position and its locals

orchVars == <<argv, steps, pc, trace, latest_file, passed, failed, printed,
              completed>>

fsVars == <<files, today, now>>

cleanVars == <<raw_exists, raw, cpc, df, before, calls, written, runlog>>

modelVars == <<mexists, mcols, mpc, df_model, mtrace, merr>>

dashVars == <<dexists, dcsv, dpc, base, dfield, dstart, dend, df_filtered,
              dresult, sess>>

vars == <<orchVars, fsVars, cleanVars, modelVars, dashVars>>

----------------------------------------------------------------------------
(* Bounds *)

\* longest --steps list enumerated
MaxArgs == 3
\* mtimes of the files already in data/processed lie in 0..MaxMtime
MaxMtime == 1
\* most rows of a raw table
MaxRows == 4
\* how often an operation is applied to its own result
MaxCalls == 2
\* longest enumerated column name
MaxNameLen == 3
\* most rows of the table the dashboard loads
MaxDashRows == 2
\* most consecutive runs of the cleaner
MaxRuns == 3
\* most rows of the column handle_outliers is studied on
MaxColLen == 5
\* most rows of a raw table with text columns
MaxTextRows == 3
\* most browser sessions with a callback under way
MaxSessions == 2

----------------------------------------------------------------------------
(* Generic helpers *)

None == "None"
Unset == "unset"
Range(s) == {s[i] : i \in 1..Len(s)}

SeqsUpTo(S, n) == UNION {[1..k -> S] : k \in 0..n}

Max(S) == CHOOSE m \in S : \A x \in S : x <= m

----------------------------------------------------------------------------
(* Tables.  A table (DataFrame) is a list of column names and a list of     *)
(* columns.  A cell is <<>> (null: NaN, None, NaT) or <<v>>.  The value of  *)
(* a numeric cell <<v>> is the rational v / den, den being the column's     *)
(* common denominator, so that means and interpolated quantiles are exact.  *)

Null == <<>>

Column(dtype, den, cells) == [dtype |-> dtype, den |-> den, cells |-> cells]

\* select_dtypes(include=[np.number])
IsNumeric(col) == col.dtype \in {"int64", "float64"}

NonNull(cells) == SelectSeq(cells, LAMBDA c : c # Null)

HasNull(col) == \E i \in 1..Len(col.cells) : col.cells[i] = Null

RECURSIVE SumCells(_)
SumCells(cells) ==
    IF cells = <<>> THEN 0
    ELSE (IF Head(cells) = Null THEN 0 ELSE Head(cells)[1])
         + SumCells(Tail(cells))

\* pd.read_csv's type of a column: numbers (and empty fields) give a numeric
\* column, anything else an object column
InferDtype(cells, numeric) ==
    IF NonNull(cells) = <<>> THEN "float64"
    ELSE IF ~numeric THEN "object"
    ELSE IF Len(NonNull(cells)) = Len(cells) THEN "int64" ELSE "float64"

EmptyDf == [names |-> <<>>, cols |-> <<>>]

NRows(t) == IF t.cols = <<>> THEN 0 ELSE Len(t.cols[1].cells)

----------------------------------------------------------------------------
(* scripts/utils.py: clean_column_names *)

UpperCase == "ABCDEFGHIJKLMNOPQRSTUVWXYZ"
LowerCase == "abcdefghijklmnopqrstuvwxyz"
Digits == "0123456789"

Chars(str) == {SubSeq(str, i, i) : i \in 1..Len(str)}

\* str.lower() on one character
LowerChar(c) ==
    IF c \in Chars(UpperCase)
    THEN LET i == CHOOSE k \in 1..Len(UpperCase) : SubSeq(UpperCase, k, k) = c
         IN  SubSeq(LowerCase, i, i)
    ELSE c

RECURSIVE Lower(_)
\* str.lower()
Lower(str) ==
    IF Len(str) = 0 THEN ""
    ELSE LowerChar(SubSeq(str, 1, 1)) \o Lower(SubSeq(str, 2, Len(str)))

Whitespace == {" ", "\t"}

RECURSIVE Strip(_)
\* str.strip(): leading and trailing whitespace removed
Strip(str) ==
    IF Len(str) = 0 THEN ""
    ELSE IF SubSeq(str, 1, 1) \in Whitespace
         THEN Strip(SubSeq(str, 2, Len(str)))
    ELSE IF SubSeq(str, Len(str), Len(str)) \in Whitespace
         THEN Strip(SubSeq(str, 1, Len(str) - 1))
    ELSE str

SubCharSpace(c) ==
    IF c \in Chars(LowerCase) \cup Chars(UpperCase) \cup Chars(Digits) \cup {"_"}
    THEN c ELSE " "

\* re.sub(r'[^a-zA-Z0-9_]', '_', ...) on one character
SubChar(c) ==
    IF c \in Chars(LowerCase) \cup Chars(UpperCase) \cup Chars(Digits) \cup {"_"}
    THEN c ELSE "_"

RECURSIVE Sub(_)
\* re.sub(r'[^a-zA-Z0-9_]', '_', str)
Sub(str) ==
    IF Len(str) = 0 THEN ""
    ELSE SubChar(SubSeq(str, 1, 1)) \o Sub(SubSeq(str, 2, Len(str)))

\* re.sub(r'[^a-zA-Z0-9_]', '_', col.lower().strip())
NormalizeName(col) == Sub(Strip(Lower(col)))

\* df.columns = [NormalizeName(col) for col in df.columns]
clean_column_names(t) ==
    [t EXCEPT !.names = [i \in 1..Len(t.names) |-> NormalizeName(t.names[i])]]

----------------------------------------------------------------------------
(* scripts/cleaning.py: the pure parts *)

\* the dates the model's tables hold, as written in the CSV
DateStrings == <<"2025-01-01", "2025-01-02", "2025-01-03">>

\* pd.to_datetime(value, errors='coerce') on one cell: the day it names, or
\* NaT when the cell is null or does not parse
ParseDate(cell) ==
    IF cell # Null /\ \E k \in 1..Len(DateStrings) : DateStrings[k] = cell[1]
    THEN <<CHOOSE k \in 1..Len(DateStrings) : DateStrings[k] = cell[1]>>
    ELSE Null

\* pd.to_datetime(df['date'], errors='coerce')
to_datetime(col) ==
    Column("datetime64", 1, [i \in 1..Len(col.cells) |-> ParseDate(col.cells[i])])

ColumnIndex(t, name) == {i \in 1..Len(t.names) : t.names[i] = name}

\* if 'date' in df.columns: df['date'] = pd.to_datetime(df['date'], ...)
ParseDateColumn(t) ==
    [t EXCEPT !.cols = [i \in 1..Len(t.cols) |->
        IF t.names[i] = "date" THEN to_datetime(t.cols[i]) ELSE t.cols[i]]]

fillna_none(col) == col

\* df[col].fillna(df[col].mean()): the mean of the non-null cells replaces
\* the null ones; the mean of no cells is NaN and fills nothing.  The
\* result is written over the denominator den * (number of non-null cells).
fillna_mean(col) ==
    LET n == Len(NonNull(col.cells))
        total == SumCells(col.cells)
    IN  IF n = 0 \/ ~HasNull(col) THEN col
        ELSE Column(col.dtype, col.den * n,
                    [i \in 1..Len(col.cells) |->
                        IF col.cells[i] = Null THEN <<total>>
                        ELSE <<col.cells[i][1] * n>>])

KeptRowsText(t) ==
    SelectSeq([i \in 1..NRows(t) |-> i],
              LAMBDA r : \A c \in 1..Len(t.cols) :
                  t.cols[c].dtype # "object" \/ t.cols[c].cells[r] # Null)

\* the rows dropna(subset=non_numeric_cols) keeps
KeptRows(t) ==
    SelectSeq([i \in 1..NRows(t) |-> i],
              LAMBDA r : \A c \in 1..Len(t.cols) :
                  IsNumeric(t.cols[c]) \/ t.cols[c].cells[r] # Null)

\* handle_missing_values
handle_missing_values(t) ==
    LET filled == [t EXCEPT !.cols = [c \in 1..Len(t.cols) |->
                      IF IsNumeric(t.cols[c]) THEN fillna_mean(t.cols[c])
                      ELSE t.cols[c]]]
        keep == KeptRows(filled)
    IN  [filled EXCEPT !.cols = [c \in 1..Len(filled.cols) |->
            [filled.cols[c] EXCEPT !.cells =
                [k \in 1..Len(keep) |-> filled.cols[c].cells[keep[k]]]]]]

SortedValues(cells) ==
    SortSeq([i \in 1..Len(NonNull(cells)) |-> NonNull(cells)[i][1]],
            LAMBDA a, b : a < b)

\* 4 * Series.quantile(k/4) of a column with at least one non-null cell, in
\* the column's unit: linear interpolation between the two order statistics
\* around position (n-1)*k/4
Quantile4(cells, k) ==
    LET s == SortedValues(cells)
        p == (Len(s) - 1) * k
        lo == p \div 4
        r == p % 4
    IN  IF r = 0 THEN 4 * s[lo + 1]
        ELSE 4 * s[lo + 1] + r * (s[lo + 2] - s[lo + 1])

\* 8 * (Q1 - 1.5 * IQR) and 8 * (Q3 + 1.5 * IQR), in the column's unit
LowerBound8(cells) ==
    LET Q1 == Quantile4(cells, 1)
        Q3 == Quantile4(cells, 3)
        IQR == Q3 - Q1
    IN  2 * Q1 - 3 * IQR

UpperBound8(cells) ==
    LET Q1 == Quantile4(cells, 1)
        Q3 == Quantile4(cells, 3)
        IQR == Q3 - Q1
    IN  2 * Q3 + 3 * IQR

clip_upper_only(v, lower, upper) == IF v > upper THEN upper ELSE v

\* Series.clip(lower, upper) on one value
clip(v, lower, upper) ==
    IF v < lower THEN lower ELSE IF v > upper THEN upper ELSE v

clip_iqr_unless_flat(col) ==
    IF NonNull(col.cells) = <<>>
         \/ Quantile4(col.cells, 3) = Quantile4(col.cells, 1)
    THEN col
    ELSE Column("float64", 8 * col.den,
                [i \in 1..Len(col.cells) |->
                    IF col.cells[i] = Null THEN Null
                    ELSE <<clip(8 * col.cells[i][1],
                                LowerBound8(col.cells),
                                UpperBound8(col.cells))>>])

\* handle_outliers, method "IQR", on one column: the result is written over
\* the denominator 8 * den.  With no non-null cell the quantiles are NaN and
\* clip changes nothing.
clip_iqr(col) ==
    IF NonNull(col.cells) = <<>> THEN col
    ELSE Column("float64", 8 * col.den,
                [i \in 1..Len(col.cells) |->
                    IF col.cells[i] = Null THEN Null
                    ELSE <<clip(8 * col.cells[i][1],
                                LowerBound8(col.cells),
                                UpperBound8(col.cells))>>])

numeric_cols_short ==
    <<"oil_production_bbl", "gas_production_mcf", "water_production_bbl",
      "wellhead_pressure_psi", "tubing_pressure_psi", "choke_size_in">>

\* numeric_cols of cleaning.py main
numeric_cols ==
    <<"oil_production_bbl", "gas_production_mcf", "water_production_bbl",
      "wellhead_pressure_psi", "tubing_pressure_psi", "choke_size_in",
      "pump_efficiency__">>

\* [col for col in numeric_cols if col in df.columns]
PresentCols(t, cols) == SelectSeq(cols, LAMBDA c : ColumnIndex(t, c) # {})

\* handle_outliers(df, columns, method="IQR")
handle_outliers(t, columns) ==
    [t EXCEPT !.cols = [i \in 1..Len(t.cols) |->
        IF \E k \in 1..Len(columns) : columns[k] = t.names[i]
        THEN clip_iqr(t.cols[i]) ELSE t.cols[i]]]

\* quantile and clip raise on a column that is not numeric
OutliersRaise(t, columns) ==
    \E i \in 1..Len(t.cols) :
        /\ \E k \in 1..Len(columns) : columns[k] = t.names[i]
        /\ ~IsNumeric(t.cols[i])

\* the modeler is not running
ModelIdle ==
    /\ mexists = FALSE
    /\ mcols = {}
    /\ mpc = "idle"
    /\ df_model = <<>>
    /\ mtrace = <<>>
    /\ merr = None

\* the dashboard is not running
DashIdle ==
    /\ dexists = FALSE
    /\ dcsv = <<>>
    /\ dpc = "idle"
    /\ base = <<>>
    /\ dfield = Unset
    /\ dstart = Unset
    /\ dend = Unset
    /\ df_filtered = <<>>
    /\ dresult = Unset
    /\ sess = <<>>

\* the cleaner is not running
CleanIdle ==
    /\ raw_exists = FALSE
    /\ raw = EmptyDf
    /\ cpc = "idle"
    /\ df = EmptyDf
    /\ before = EmptyDf
    /\ calls = 0
    /\ written = <<>>
    /\ runlog = <<>>

----------------------------------------------------------------------------
(* main.py *)

\* choices= of the --steps option
Choices == {"clean", "eda", "model", "dashboard"}

\* default= of the --steps option
DefaultSteps == <<"clean", "eda", "model", "dashboard">>

\* the steps that consume the cleaned file
Downstream == {"eda", "model", "dashboard"}

\* the %Y%m%d suffixes the model's calendar knows
Dates == {"20250101", "20250731", "20250801"}

\* the dates on which the modelled runs take place
RunDates == {"20250731", "20250801"}

\* the dates of the files that earlier runs may have left behind
EarlierDates == {"20250101", "20250731"}

CleanedPathUndated(d) == "cleaned_oil_field_production_data.csv"

\* save_dataframe's output path for a date suffix
CleanedPath(d) == "cleaned_oil_field_production_data_" \o d \o ".csv"

CleanedFiles == {CleanedPath(d) : d \in Dates}

EarlierFiles == {CleanedPath(d) : d \in EarlierDates}

\* glob.glob(".../cleaned_oil_field_production_data_*.csv")
Glob(dir) == DOMAIN dir

\* df.to_csv(output_path): the file is created or replaced, its mtime set
WriteFile(dir, path, mtime) ==
    [f \in DOMAIN dir \cup {path} |-> IF f = path THEN mtime ELSE dir[f]]

\* get_latest_cleaned_file: the values it can return for a directory.
\* max(files, key=os.path.getmtime) returns the first file of the glob
\* listing whose mtime is the largest; the listing order is whatever the
\* directory scan yields, so with equal mtimes any of the newest files can
\* be the result.
get_latest_cleaned_file(dir) ==
    IF Glob(dir) = {}
    THEN {None}
    ELSE {f \in Glob(dir) : dir[f] = Max({dir[g] : g \in Glob(dir)})}

SelectedAlways(step, st) == TRUE

\* 'step' in args.steps
Selected(step, st) == step \in Range(st)

\* any(step in args.steps for step in ['eda', 'model', 'dashboard'])
AnyDownstream(st) == \E s \in Downstream : Selected(s, st)

\* the statement main reaches after a step returned normally (or was not
\* selected)
Successor(step) ==
    CASE step = "clean" -> "lookup"
      [] step = "eda" -> "model"
      [] step = "model" -> "dashboard"
      [] step = "dashboard" -> "success"

OnExceptionContinue(step) == Successor(step)

\* except Exception as e: print(...); return
OnException(step) == "done"

AfterLookupAlways(found) == "eda"

\* if not latest_file: print(...); return
AfterLookup(found) == IF found = None THEN "done" ELSE "eda"

\* parser.parse_args(): --steps with nargs='+' and a default
ParseArgs ==
    /\ pc = "parse"
    /\ steps' = IF argv = <<>> THEN DefaultSteps ELSE argv
    /\ pc' = "clean"
    /\ UNCHANGED <<argv, trace, latest_file, passed, failed, printed,
                   completed, files,
                   today, now, cleanVars, modelVars, dashVars>>

\* if 'clean' in args.steps: try: clean_data() except Exception: return
\* clean_data (cleaning.main) either raises or ends in save_dataframe, which
\* writes the cleaned file of today's date.
StepClean ==
    /\ pc = "clean"
    /\ IF Selected("clean", steps)
       THEN /\ trace' = Append(trace, "clean")
            /\ \E outcome \in {"ok", "raise"} :
                 IF outcome = "ok"
                 THEN /\ files' = WriteFile(files, CleanedPath(today), now)
                      /\ completed' = completed \cup {"clean"}
                      /\ pc' = Successor("clean")
                      /\ UNCHANGED failed
                 ELSE /\ failed' = "clean"
                      /\ pc' = OnException("clean")
                      /\ UNCHANGED <<files, completed>>
       ELSE /\ pc' = Successor("clean")
            /\ UNCHANGED <<trace, files, failed, completed>>
    /\ UNCHANGED <<argv, steps, latest_file, passed, printed, today, now,
                   cleanVars, modelVars, dashVars>>

\* if any(...): latest_file = get_latest_cleaned_file(base_dir)
\*              if not latest_file: return
Lookup ==
    /\ pc = "lookup"
    /\ IF AnyDownstream(steps)
       THEN /\ trace' = Append(trace, "lookup")
            /\ \E f \in get_latest_cleaned_file(files) :
                 /\ latest_file' = f
                 /\ pc' = AfterLookup(f)
       ELSE /\ pc' = "success"
            /\ UNCHANGED <<trace, latest_file>>
    /\ UNCHANGED <<argv, steps, passed, failed, printed, completed, files,
                   today, now,
                   cleanVars, modelVars, dashVars>>

\* how a downstream step can end: it runs to its end and returns, or it
\* raises.  perform_eda and train_model raise when load_data does;
\* run_dashboard catches the exception of load_data, prints it and returns
\* without having built or served anything (dashboard.py 33-37).
Outcomes(step) ==
    IF step = "dashboard" THEN {"ok", "raise", "load_failed"}
    ELSE {"ok", "raise"}

\* if step in args.steps: try: <step>(latest_file) except Exception: return
RunDownstream(step) ==
    /\ pc = step
    /\ IF Selected(step, steps)
       THEN /\ trace' = Append(trace, step)
            /\ passed' = [passed EXCEPT ![step] = latest_file]
            /\ \E outcome \in Outcomes(step) :
                 CASE outcome = "ok" ->
                        /\ completed' = completed \cup {step}
                        /\ pc' = Successor(step)
                        /\ UNCHANGED failed
                   [] outcome = "load_failed" ->
                        /\ pc' = Successor(step)
                        /\ UNCHANGED <<failed, completed>>
                   [] outcome = "raise" ->
                        /\ failed' = step
                        /\ pc' = OnException(step)
                        /\ UNCHANGED completed
       ELSE /\ pc' = Successor(step)
            /\ UNCHANGED <<trace, passed, failed, completed>>
    /\ UNCHANGED <<argv, steps, latest_file, printed, files, today, now,
                   cleanVars, modelVars, dashVars>>

StepEda == RunDownstream("eda")

StepModel == RunDownstream("model")

StepDashboard == RunDownstream("dashboard")

\* print("=== ... ===") at the end of main
PrintSuccess ==
    /\ pc = "success"
    /\ printed' = TRUE
    /\ pc' = "done"
    /\ UNCHANGED <<argv, steps, trace, latest_file, passed, failed,
                   completed, files,
                   today, now, cleanVars, modelVars, dashVars>>

\* One invocation of main.py.  The command line, the date and the contents
\* of data/processed are the run's inputs: the directory holds any of the
\* files of earlier dates, written (or copied, or saved again) at different
\* times in either order, all before this run.
InitOrch ==
    /\ argv \in SeqsUpTo(Choices, MaxArgs)
    /\ steps = <<>>
    /\ pc = "parse"
    /\ trace = <<>>
    /\ latest_file = Unset
    /\ passed = [s \in Downstream |-> Unset]
    /\ failed = None
    /\ printed = FALSE
    /\ completed = {}
    /\ files \in {d \in UNION {[present -> 0..MaxMtime] :
                               present \in SUBSET EarlierFiles} :
                      \A f, g \in DOMAIN d : f # g => d[f] # d[g]}
    /\ today \in RunDates
    /\ now = MaxMtime + 1
    /\ CleanIdle
    /\ ModelIdle
    /\ DashIdle

NextOrch ==
    \/ ParseArgs
    \/ StepClean
    \/ Lookup
    \/ StepEda
    \/ StepModel
    \/ StepDashboard
    \/ PrintSuccess

SpecOrch == InitOrch /\ [][NextOrch]_vars

----------------------------------------------------------------------------
(* Claims about main.py, checked under SpecOrch *)

\* the steps the command line selects
SelectedSet == IF argv = <<>> THEN Choices ELSE Range(argv)

\* the steps main has started, in the order it started them
Started == SelectSeq(trace, LAMBDA e : e \in Choices)

\* the fixed order clean, eda, model, dashboard
Rank(step) ==
    CASE step = "clean" -> 1
      [] step = "eda" -> 2
      [] step = "model" -> 3
      [] step = "dashboard" -> 4

Positions(e) == {i \in 1..Len(trace) : trace[i] = e}

\* C1: whatever the order and repetitions of the names given to --steps,
\* main starts only selected steps, in the order clean, eda, model,
\* dashboard, each at most once; a run that reaches the success message has
\* started every selected step; without --steps all four are selected.
C1_StepOrder ==
    /\ \A i \in 1..Len(Started) : Started[i] \in SelectedSet
    /\ \A i, j \in 1..Len(Started) :
         i < j => Rank(Started[i]) < Rank(Started[j])
    /\ (pc # "parse" /\ argv = <<>>) => Range(steps) = Choices
    /\ (pc # "parse" /\ argv # <<>>) => Range(steps) = Range(argv)
    /\ printed => Range(Started) = SelectedSet

\* a run given the steps out of order and with a repetition
C1_Witness ==
    /\ argv = <<"dashboard", "clean", "dashboard">>
    /\ pc = "done"
    /\ Started = <<"clean", "dashboard">>

\* C2: when a selected step fails, main returns: the failed step is the last
\* one started, it was started once, and no later step is started.
C2_FailureStopsRun ==
    failed # None =>
        /\ pc = "done"
        /\ trace # <<>>
        /\ trace[Len(trace)] = failed
        /\ Cardinality(Positions(failed)) = 1

\* eda failed while model and dashboard were selected too
C2_Witness ==
    /\ failed = "eda"
    /\ {"model", "dashboard"} \subseteq SelectedSet
    /\ pc = "done"
    /\ Positions("model") = {}
    /\ Positions("dashboard") = {}

\* C3: with exactly the 20250101 and the 20250731 file in data/processed,
\* get_latest_cleaned_file returns the 20250731 file.
C3_ReturnsNewestDate ==
    ( /\ "lookup" \in Range(trace)
      /\ Glob(files) = {CleanedPath("20250101"), CleanedPath("20250731")} )
        => latest_file = CleanedPath("20250731")

\* C16: the final success message is printed only in runs in which every
\* selected step ran to completion; a run whose dashboard step could not
\* load the cleaned file does not print it.
C16_SuccessMeansAllCompleted ==
    printed => SelectedSet \subseteq completed

\* C4: the cleaned file is looked up at most once, only when a downstream
\* step is selected, after the clean step and before any downstream step;
\* once the clean step is behind (not failed) the lookup has been made
\* exactly once; when it finds no file no downstream step starts; every
\* downstream step that starts receives the located path.
C4_LookupOnce ==
    /\ Cardinality(Positions("lookup")) <= 1
    /\ (SelectedSet \cap Downstream = {}) => Positions("lookup") = {}
    /\ ( /\ SelectedSet \cap Downstream # {}
         /\ pc \in Downstream \cup {"success", "done"}
         /\ failed # "clean" ) => Cardinality(Positions("lookup")) = 1
    /\ \A i \in Positions("lookup") :
         /\ \A k \in Positions("clean") : k < i
         /\ "clean" \in SelectedSet => Positions("clean") # {}
    /\ \A s \in Downstream : \A j \in Positions(s) :
         /\ \E i \in Positions("lookup") : i < j
         /\ latest_file \in Glob(files)
         /\ passed[s] = latest_file
    /\ latest_file = None =>
         \A s \in Downstream : Positions(s) = {}

\* clean wrote today's file, the lookup found it and two steps received it
C4_Witness ==
    /\ trace = <<"clean", "lookup", "eda", "dashboard">>
    /\ latest_file = CleanedPath(today)
    /\ passed["eda"] = latest_file
    /\ passed["dashboard"] = latest_file

----------------------------------------------------------------------------
(* scripts/cleaning.py: main, step by step *)

\* the orchestrator is not running
OrchIdle ==
    /\ argv = <<>>
    /\ steps = <<>>
    /\ pc = "idle"
    /\ trace = <<>>
    /\ latest_file = Unset
    /\ passed = [s \in Downstream |-> Unset]
    /\ failed = None
    /\ printed = FALSE
    /\ completed = {}

RECURSIVE GCD(_, _)
GCD(a, b) == IF b = 0 THEN a ELSE GCD(b, a % b)

\* one field of the CSV text: nothing for a null, the date for a datetime,
\* the number (the fraction in lowest terms) for a numeric cell, the text
\* itself otherwise
CsvField(col, cell) ==
    IF cell = Null THEN ""
    ELSE IF col.dtype = "datetime64" THEN DateStrings[cell[1]]
    ELSE IF IsNumeric(col)
         THEN LET g == GCD(cell[1], col.den)
              IN  IF col.den = g THEN ToString(cell[1] \div g)
                  ELSE ToString(cell[1] \div g) \o "/"
                         \o ToString(col.den \div g)
    ELSE cell[1]

\* df.to_csv(output_path, index=False): the header line, then one line per
\* row, without the index
to_csv(t) ==
    <<t.names>> \o [r \in 1..NRows(t) |->
                      [c \in 1..Len(t.cols) |->
                          CsvField(t.cols[c], t.cols[c].cells[r])]]

\* df = load_data(input_path): raises when the file does not exist
CleanLoad ==
    /\ cpc = "load"
    /\ IF raw_exists
       THEN df' = raw /\ cpc' = "names"
       ELSE cpc' = "failed" /\ UNCHANGED df
    /\ UNCHANGED <<raw_exists, raw, before, calls, written, runlog, fsVars,
                   orchVars, modelVars, dashVars>>

\* df = clean_column_names(df)
CleanNames ==
    /\ cpc = "names"
    /\ df' = clean_column_names(df)
    /\ cpc' = "date"
    /\ UNCHANGED <<raw_exists, raw, before, calls, written, runlog, fsVars,
                   orchVars, modelVars, dashVars>>

\* if 'date' in df.columns: df['date'] = pd.to_datetime(..., errors='coerce')
CleanDate ==
    /\ cpc = "date"
    /\ df' = ParseDateColumn(df)
    /\ cpc' = "missing"
    /\ UNCHANGED <<raw_exists, raw, before, calls, written, runlog, fsVars,
                   orchVars, modelVars, dashVars>>

\* df = handle_missing_values(df)
CleanMissing ==
    /\ cpc = "missing"
    /\ df' = handle_missing_values(df)
    /\ cpc' = "outliers"
    /\ UNCHANGED <<raw_exists, raw, before, calls, written, runlog, fsVars,
                   orchVars, modelVars, dashVars>>

CleanOutliersSaving ==
    /\ cpc = "outliers"
    /\ before' = df
    /\ files' = WriteFile(files, CleanedPath(today), now)
    /\ written' = WriteFile(written, CleanedPath(today), to_csv(df))
    /\ LET columns == PresentCols(df, numeric_cols)
       IN  IF OutliersRaise(df, columns)
           THEN cpc' = "failed" /\ UNCHANGED df
           ELSE df' = handle_outliers(df, columns) /\ cpc' = "save"
    /\ UNCHANGED <<raw_exists, raw, calls, runlog, today, now, orchVars,
                   modelVars, dashVars>>

\* numeric_cols = [col for col in numeric_cols if col in df.columns]
\* df = handle_outliers(df, numeric_cols, method="IQR")
CleanOutliers ==
    /\ cpc = "outliers"
    /\ before' = df
    /\ LET columns == PresentCols(df, numeric_cols)
       IN  IF OutliersRaise(df, columns)
           THEN cpc' = "failed" /\ UNCHANGED df
           ELSE df' = handle_outliers(df, columns) /\ cpc' = "save"
    /\ UNCHANGED <<raw_exists, raw, calls, written, runlog, fsVars, orchVars,
                   modelVars, dashVars>>

\* save_dataframe(df, "cleaned_oil_field_production_data", output_dir)
CleanSave ==
    /\ cpc = "save"
    /\ files' = WriteFile(files, CleanedPath(today), now)
    /\ written' = WriteFile(written, CleanedPath(today), to_csv(df))
    /\ runlog' = Append(runlog, [date |-> today, out |-> to_csv(df)])
    /\ cpc' = "done"
    /\ UNCHANGED <<raw_exists, raw, df, before, calls, today, now, orchVars,
                   modelVars, dashVars>>

\* the values of the raw table's numeric column
NumValues == {0, 1}

NumCells == {Null} \cup {<<v>> : v \in NumValues}

\* the fields of the raw table's date column: unparseable text, a date
DateCells == {<<"not a date">>, <<DateStrings[1]>>}

\* headers of the numeric column: the one the data file carries for the
\* seventh listed column, and the name the production-record schema gives it
NumHeaders == {"Pump_Efficiency_%", "pump_efficiency_pct"}

\* the raw CSV as pd.read_csv returns it
RawTable(h, num, date) ==
    [names |-> <<h, "Date">>,
     cols |-> <<Column(InferDtype(num, TRUE), 1, num),
                Column(InferDtype(date, FALSE), 1, date)>>]

RawTables ==
    {RawTable(h, num, date) :
        h \in NumHeaders,
        <<num, date>> \in UNION {[1..n -> NumCells] \X [1..n -> DateCells] :
                                    n \in 1..MaxRows}}

\* One run of cleaning.py main on a raw file (or on none).
InitClean ==
    /\ OrchIdle
    /\ files = <<>>
    /\ today = "20250731"
    /\ now = MaxMtime + 1
    /\ \/ raw_exists = FALSE /\ raw = EmptyDf
       \/ raw_exists = TRUE /\ raw \in RawTables
    /\ cpc = "load"
    /\ df = EmptyDf
    /\ before = EmptyDf
    /\ calls = 0
    /\ written = <<>>
    /\ runlog = <<>>
    /\ ModelIdle
    /\ DashIdle

NextClean ==
    \/ CleanLoad
    \/ CleanNames
    \/ CleanDate
    \/ CleanMissing
    \/ CleanOutliers
    \/ CleanSave

SpecClean == InitClean /\ [][NextClean]_vars

----------------------------------------------------------------------------
(* cleaning.py main on raw tables with text columns *)

\* the fields of the date column: empty, unparseable text, two dates
TextDateCells ==
    {Null, <<"not a date">>, <<DateStrings[1]>>, <<DateStrings[2]>>}

\* the fields of the field-name column: empty, a name
FieldCells == {Null, <<"A">>}

\* a raw CSV with a well id per row (W1, W2, ...), a date, a field name and
\* a production figure, as pd.read_csv returns it
TextTable(date, field) ==
    LET n == Len(date)
        ids == [r \in 1..n |-> <<"W" \o ToString(r)>>]
        oil == [r \in 1..n |-> <<r % 2>>]
    IN  [names |-> <<"Well_ID", "Date", "Field_Name", "Oil_Production_BBL">>,
         cols |-> <<Column(InferDtype(ids, FALSE), 1, ids),
                    Column(InferDtype(date, FALSE), 1, date),
                    Column(InferDtype(field, FALSE), 1, field),
                    Column(InferDtype(oil, TRUE), 1, oil)>>]

TextTables ==
    {TextTable(date, field) :
        <<date, field>> \in
            UNION {[1..n -> TextDateCells] \X [1..n -> FieldCells] :
                      n \in 1..MaxTextRows}}

\* One run of cleaning.py main on such a raw file (or on none).
InitCleanText ==
    /\ OrchIdle
    /\ files = <<>>
    /\ today = "20250731"
    /\ now = MaxMtime + 1
    /\ \/ raw_exists = FALSE /\ raw = EmptyDf
       \/ raw_exists = TRUE /\ raw \in TextTables
    /\ cpc = "load"
    /\ df = EmptyDf
    /\ before = EmptyDf
    /\ calls = 0
    /\ written = <<>>
    /\ runlog = <<>>
    /\ ModelIdle
    /\ DashIdle

NextCleanText ==
    \/ CleanLoad
    \/ CleanNames
    \/ CleanDate
    \/ CleanMissing
    \/ CleanOutliers
    \/ CleanSave

SpecCleanText == InitCleanText /\ [][NextCleanText]_vars

----------------------------------------------------------------------------
(* cleaning.py run again and again, the days passing *)

\* the model's calendar, in order
Calendar == <<"20250101", "20250731", "20250801">>

\* the next day of the calendar
Tomorrow(d) ==
    Calendar[(CHOOSE k \in 1..Len(Calendar) : Calendar[k] = d) + 1]

\* the raw file as the runs find it: one well-formed row; two rows, higher
\* production and one unparseable date; a production column that holds text
RunTables ==
    {RawTable("Oil_Production_BBL", <<<<0>>>>, <<<<DateStrings[1]>>>>),
     RawTable("Oil_Production_BBL", <<<<1>>, <<0>>>>,
              <<<<DateStrings[1]>>, <<"not a date">>>>),
     [names |-> <<"Oil_Production_BBL", "Date">>,
      cols |-> <<Column("object", 1, <<<<"n/a">>>>),
                 Column("object", 1, <<<<DateStrings[1]>>>>)>>]}

\* python cleaning.py, once more: a run starts after the previous one has
\* ended, at a later time, on whatever the raw file is by then
NewRun ==
    /\ cpc \in {"done", "failed"}
    /\ calls + 1 < MaxRuns
    /\ calls' = calls + 1
    /\ \/ raw_exists' = FALSE /\ raw' = EmptyDf
       \/ raw_exists' = TRUE /\ raw' \in RunTables
    /\ cpc' = "load"
    /\ df' = EmptyDf
    /\ before' = EmptyDf
    /\ now' = now + 1
    /\ UNCHANGED <<files, today, written, runlog, orchVars, modelVars,
                   dashVars>>

\* the date changes: datetime.now() in save_dataframe reads the new one
Midnight ==
    /\ today # Calendar[Len(Calendar)]
    /\ today' = Tomorrow(today)
    /\ UNCHANGED <<files, now, cleanVars, orchVars, modelVars, dashVars>>

InitRuns ==
    /\ OrchIdle
    /\ files = <<>>
    /\ today = "20250731"
    /\ now = MaxMtime + 1
    /\ \/ raw_exists = FALSE /\ raw = EmptyDf
       \/ raw_exists = TRUE /\ raw \in RunTables
    /\ cpc = "load"
    /\ df = EmptyDf
    /\ before = EmptyDf
    /\ calls = 0
    /\ written = <<>>
    /\ runlog = <<>>
    /\ ModelIdle
    /\ DashIdle

NextRuns ==
    \/ CleanLoad
    \/ CleanNames
    \/ CleanDate
    \/ CleanMissing
    \/ CleanOutliers
    \/ CleanSave
    \/ NewRun
    \/ Midnight

SpecRuns == InitRuns /\ [][NextRuns]_vars

----------------------------------------------------------------------------
(* handle_outliers as a function of one numeric column *)

\* handle_outliers(df, [col], method="IQR"), applied to its own result
ApplyOutliers ==
    /\ cpc = "handle_outliers"
    /\ calls < MaxCalls
    /\ before' = df
    /\ df' = handle_outliers(df, df.names)
    /\ calls' = calls + 1
    /\ UNCHANGED <<raw_exists, raw, cpc, written, runlog, fsVars, orchVars,
                   modelVars, dashVars>>

InitOutliers ==
    /\ OrchIdle
    /\ files = <<>>
    /\ today = "20250731"
    /\ now = MaxMtime + 1
    /\ raw_exists = TRUE
    /\ raw \in {[names |-> <<"oil_production_bbl">>,
                 cols |-> <<Column("float64", 1, cells)>>] :
                   cells \in UNION {[1..n -> NumCells] :
                                       n \in 1..MaxColLen}}
    /\ cpc = "handle_outliers"
    /\ df = raw
    /\ before = EmptyDf
    /\ calls = 0
    /\ written = <<>>
    /\ runlog = <<>>
    /\ ModelIdle
    /\ DashIdle

NextOutliers == ApplyOutliers

SpecOutliers == InitOutliers /\ [][NextOutliers]_vars

----------------------------------------------------------------------------
(* clean_column_names as a function of the header *)

\* df = clean_column_names(df), applied to its own result
ApplyNames ==
    /\ cpc = "clean_column_names"
    /\ calls < MaxCalls
    /\ before' = df
    /\ df' = clean_column_names(df)
    /\ calls' = calls + 1
    /\ UNCHANGED <<raw_exists, raw, cpc, written, runlog, fsVars, orchVars,
                   modelVars, dashVars>>

\* characters of the enumerated column names: an upper-case and a
\* lower-case letter, a digit, the underscore, a blank and a symbol
NameChars == {"A", "b", "1", "_", " ", "%"}

RECURSIVE NamesUpTo(_)
NamesUpTo(n) ==
    IF n = 0 THEN {""}
    ELSE NamesUpTo(n - 1) \cup {s \o c : s \in NamesUpTo(n - 1), c \in NameChars}

\* headers as found in data files
FileHeaders == {"Pump_Efficiency_%", " Well ID "}

Headers ==
    {<<s>> : s \in NamesUpTo(MaxNameLen)}
      \cup {<<s, h>> : s \in NamesUpTo(MaxNameLen), h \in FileHeaders}

InitNames ==
    /\ OrchIdle
    /\ files = <<>>
    /\ today = "20250731"
    /\ now = MaxMtime + 1
    /\ raw_exists = TRUE
    /\ raw \in {[names |-> hs,
                 cols |-> [i \in 1..Len(hs) |-> Column("object", 1, <<>>)]] :
                   hs \in Headers}
    /\ cpc = "clean_column_names"
    /\ df = raw
    /\ before = EmptyDf
    /\ calls = 0
    /\ written = <<>>
    /\ runlog = <<>>
    /\ ModelIdle
    /\ DashIdle

NextNames == ApplyNames

SpecNames == InitNames /\ [][NextNames]_vars

----------------------------------------------------------------------------
(* Claims about the cleaner *)

\* every non-null value of col lies within [Q1 - 1.5*IQR, Q3 + 1.5*IQR] of
\* the column ref (values compared as rationals over the two denominators)
WithinFence(col, ref) ==
    \A i \in 1..Len(col.cells) :
        col.cells[i] # Null =>
            /\ LowerBound8(ref.cells) * col.den <= col.cells[i][1] * 8 * ref.den
            /\ col.cells[i][1] * 8 * ref.den <= UpperBound8(ref.cells) * col.den

\* the two columns hold the same values, row by row
SameValues(a, b) ==
    /\ Len(a.cells) = Len(b.cells)
    /\ \A i \in 1..Len(a.cells) :
         IF a.cells[i] = Null \/ b.cells[i] = Null
         THEN a.cells[i] = b.cells[i]
         ELSE a.cells[i][1] * b.den = b.cells[i][1] * a.den

\* C5 as stated: the cleaned table has no null in any column that was
\* numeric in the raw table.
C5_NoNullInNumeric ==
    cpc = "done" =>
        \A i \in 1..Len(raw.cols) :
            IsNumeric(raw.cols[i]) => ~HasNull(df.cols[i])

\* C5, amended: the cleaned table has no null in any column that was
\* numeric in the raw table and held at least one value there.
C5_NoNullWhereMeanExists ==
    cpc = "done" =>
        \A i \in 1..Len(raw.cols) :
            (IsNumeric(raw.cols[i]) /\ NonNull(raw.cols[i].cells) # <<>>)
                => ~HasNull(df.cols[i])

\* a numeric column with a gap and a value, cleaned to rows without a gap
C5_Witness ==
    /\ cpc = "done"
    /\ HasNull(raw.cols[1])
    /\ NonNull(raw.cols[1].cells) # <<>>
    /\ NRows(df) >= 2
    /\ ~HasNull(df.cols[1])

\* C6 as stated: after handle_outliers (IQR) every value lies within the
\* fence recomputed on the clipped column, and a second application changes
\* no value.
C6_ClipIdempotent ==
    /\ calls >= 1 => WithinFence(df.cols[1], df.cols[1])
    /\ calls >= 2 => SameValues(df.cols[1], before.cols[1])

\* C6, amended: handle_outliers (IQR) clamps every value to the fence
\* computed on the column as it was before the call: a value inside the
\* fence is kept, a value below it becomes the lower bound, a value above
\* it the upper bound.
C6_ClampedToInputFence ==
    calls >= 1 =>
        LET old == before.cols[1]
            new == df.cols[1]
        IN  /\ Len(new.cells) = Len(old.cells)
            /\ WithinFence(new, old)
            /\ \A i \in 1..Len(old.cells) :
                 IF old.cells[i] = Null THEN new.cells[i] = Null
                 ELSE LET v8 == 8 * old.cells[i][1]
                          lo == LowerBound8(old.cells)
                          hi == UpperBound8(old.cells)
                          w == new.cells[i][1] * 8 * old.den
                      IN  /\ new.cells[i] # Null
                          /\ (lo <= v8 /\ v8 <= hi) => w = v8 * new.den
                          /\ v8 < lo => w = lo * new.den
                          /\ v8 > hi => w = hi * new.den

\* the column 0, 0, 0, 1 after one call: the 1 was clipped to 5/8
C6_Witness ==
    /\ calls = 1
    /\ raw.cols[1].cells = <<<<0>>, <<0>>, <<0>>, <<1>>>>
    /\ df.cols[1].den = 8
    /\ df.cols[1].cells = <<<<0>>, <<0>>, <<0>>, <<5>>>>

\* the column has a value and its IQR, Q3 - Q1, is zero
ZeroIqr(col) ==
    /\ NonNull(col.cells) # <<>>
    /\ Quantile4(col.cells, 3) = Quantile4(col.cells, 1)

\* C13 as stated: handle_outliers (IQR) leaves every value of a numeric
\* column whose IQR is zero unchanged.
C13_ZeroIqrUnchanged ==
    (calls >= 1 /\ ZeroIqr(before.cols[1]))
        => SameValues(df.cols[1], before.cols[1])

\* C13, amended: in a numeric column whose IQR is zero handle_outliers
\* (IQR) replaces every value by Q1 = Q3 and keeps the nulls: the values
\* equal to the quartiles stay, every other value is lost; a column whose
\* values are all equal is left unchanged.
C13_ZeroIqrCollapses ==
    (calls >= 1 /\ ZeroIqr(before.cols[1])) =>
        LET old == before.cols[1]
            new == df.cols[1]
        IN  /\ Len(new.cells) = Len(old.cells)
            /\ \A i \in 1..Len(old.cells) :
                 IF old.cells[i] = Null THEN new.cells[i] = Null
                 ELSE /\ new.cells[i] # Null
                      /\ new.cells[i][1] * 4 * old.den
                           = Quantile4(old.cells, 1) * new.den
            /\ (\A i, j \in 1..Len(old.cells) :
                    (old.cells[i] # Null /\ old.cells[j] # Null)
                        => old.cells[i] = old.cells[j])
                  => SameValues(new, old)

\* the column 0, 0, 0, 0, 1 (Q1 = Q3 = 0) after one call: the 1 became 0
C13_Witness ==
    /\ calls = 1
    /\ before.cols[1].cells = <<<<0>>, <<0>>, <<0>>, <<0>>, <<1>>>>
    /\ ZeroIqr(before.cols[1])
    /\ df.cols[1].cells = <<<<0>>, <<0>>, <<0>>, <<0>>, <<0>>>>

\* the numeric columns of the production-record schema
SchemaNumericCols ==
    {"oil_production_bbl", "gas_production_mcf", "water_production_bbl",
     "wellhead_pressure_psi", "tubing_pressure_psi", "choke_size_in",
     "pump_efficiency_pct"}

\* C7 as stated: every numeric column of the schema, pump_efficiency_pct
\* included, lies in the cleaned table within the fence of its values
\* before clipping.
C7_SchemaColumnsClipped ==
    cpc = "done" =>
        \A i \in 1..Len(raw.cols) :
            (raw.names[i] \in SchemaNumericCols /\ IsNumeric(raw.cols[i]))
                => WithinFence(df.cols[i], before.cols[i])

\* C7, amended: a numeric column whose normalized name is one of
\* oil_production_bbl, gas_production_mcf, water_production_bbl,
\* wellhead_pressure_psi, tubing_pressure_psi, choke_size_in,
\* pump_efficiency__ lies in the cleaned table within the fence of its
\* values before clipping; every other column, pump_efficiency_pct
\* included, leaves the outlier step as it entered it.
C7_ListedColumnsClipped ==
    cpc = "done" =>
        \A i \in 1..Len(df.cols) :
            IF df.names[i] \in
                 {"oil_production_bbl", "gas_production_mcf",
                  "water_production_bbl", "wellhead_pressure_psi",
                  "tubing_pressure_psi", "choke_size_in", "pump_efficiency__"}
            THEN WithinFence(df.cols[i], before.cols[i])
            ELSE df.cols[i] = before.cols[i]

\* the column headed Pump_Efficiency_% was normalized, found in the list
\* and a value of it was clipped
C7_Witness ==
    /\ cpc = "done"
    /\ raw.names[1] = "Pump_Efficiency_%"
    /\ df.names[1] = "pump_efficiency__"
    /\ ~SameValues(df.cols[1], before.cols[1])

\* C8: normalizing the column names twice gives the names that
\* normalizing them once gives.
C8_NormalizeIdempotent ==
    calls >= 2 => df.names = before.names

\* a header with blanks, capitals and symbols, normalized twice
C8_Witness ==
    /\ calls = 2
    /\ raw.names = <<" A%", "Pump_Efficiency_%">>
    /\ df.names = <<"a_", "pump_efficiency__">>

----------------------------------------------------------------------------
(* scripts/modeling.py *)

\* features of preprocess_for_modeling
features ==
    <<"gas_production_mcf", "water_production_bbl", "wellhead_pressure_psi",
      "tubing_pressure_psi", "choke_size_in", "pump_efficiency__",
      "field_name">>

\* target of preprocess_for_modeling
target == "oil_production_bbl"

\* the values of field_name in the model's tables, in sorted order
FieldNames == <<"A", "B">>

TargetMissingNever(cols) == FALSE

\* if target not in df.columns
TargetMissing(cols) == target \notin cols

\* the columns of the df_model that preprocess_for_modeling returns
preprocess_for_modeling(cols) ==
    LET present == SelectSeq(features, LAMBDA c : c \in cols)
        selected == present \o <<target>>
        ratio == IF "water_production_bbl" \in Range(selected)
                 THEN <<"oil_to_water_ratio">> ELSE <<>>
        dummies == [k \in 1..(Len(FieldNames) - 1) |->
                        "field_name_" \o FieldNames[k + 1]]
    IN  IF "field_name" \in Range(present)
        THEN SelectSeq(selected \o ratio, LAMBDA c : c # "field_name")
               \o dummies
        ELSE selected \o ratio

\* df = load_data(input_path)
ModelLoad ==
    /\ mpc = "load"
    /\ IF mexists
       THEN mpc' = "preprocess" /\ UNCHANGED merr
       ELSE mpc' = "failed" /\ merr' = "FileNotFoundError"
    /\ UNCHANGED <<mexists, mcols, df_model, mtrace>>
    /\ UNCHANGED <<orchVars, fsVars, cleanVars, dashVars>>

\* df_model, target = preprocess_for_modeling(df)
ModelPreprocess ==
    /\ mpc = "preprocess"
    /\ IF TargetMissing(mcols)
       THEN /\ merr' = "ValueError"
            /\ mpc' = "failed"
            /\ UNCHANGED df_model
       ELSE /\ df_model' = preprocess_for_modeling(mcols)
            /\ mpc' = "train"
            /\ UNCHANGED merr
    /\ UNCHANGED <<mexists, mcols, mtrace>>
    /\ UNCHANGED <<orchVars, fsVars, cleanVars, dashVars>>

\* train_model(X, y): train_test_split, then RandomForestRegressor.fit;
\* the split raises on a table with too few rows
ModelTrain ==
    /\ mpc = "train"
    /\ \E enough_rows \in BOOLEAN :
         IF enough_rows
         THEN /\ mtrace' = mtrace \o <<"split", "fit">>
              /\ mpc' = "predictions_plot"
              /\ UNCHANGED merr
         ELSE /\ mtrace' = Append(mtrace, "split")
              /\ mpc' = "failed"
              /\ merr' = "ValueError"
    /\ UNCHANGED <<mexists, mcols, df_model>>
    /\ UNCHANGED <<orchVars, fsVars, cleanVars, dashVars>>

\* save_figure(fig_predictions, "predictions_vs_actual", ...)
ModelPredictionsPlot ==
    /\ mpc = "predictions_plot"
    /\ mtrace' = Append(mtrace, "figure")
    /\ mpc' = "importance_plot"
    /\ UNCHANGED <<mexists, mcols, df_model, merr>>
    /\ UNCHANGED <<orchVars, fsVars, cleanVars, dashVars>>

\* save_figure(fig_importance, "feature_importance", ...)
ModelImportancePlot ==
    /\ mpc = "importance_plot"
    /\ mtrace' = Append(mtrace, "figure")
    /\ mpc' = "report"
    /\ UNCHANGED <<mexists, mcols, df_model, merr>>
    /\ UNCHANGED <<orchVars, fsVars, cleanVars, dashVars>>

\* save_report(figures, report_title, "modeling_report", ...)
ModelReport ==
    /\ mpc = "report"
    /\ mtrace' = Append(mtrace, "report")
    /\ mpc' = "done"
    /\ UNCHANGED <<mexists, mcols, df_model, merr>>
    /\ UNCHANGED <<orchVars, fsVars, cleanVars, dashVars>>

\* the columns a table handed to the modeler may have
TableColumns ==
    {"date", "field_name", "well_id", "oil_production_bbl",
     "gas_production_mcf", "water_production_bbl", "pump_efficiency__"}

\* One run of modeling.py main on a file (or on none).
InitModeling ==
    /\ OrchIdle
    /\ files = <<>>
    /\ today = "20250731"
    /\ now = MaxMtime + 1
    /\ CleanIdle
    /\ DashIdle
    /\ \/ mexists = FALSE /\ mcols = {}
       \/ mexists = TRUE /\ mcols \in SUBSET TableColumns
    /\ mpc = "load"
    /\ df_model = <<>>
    /\ mtrace = <<>>
    /\ merr = None

NextModeling ==
    \/ ModelLoad
    \/ ModelPreprocess
    \/ ModelTrain
    \/ ModelPredictionsPlot
    \/ ModelImportancePlot
    \/ ModelReport

SpecModeling == InitModeling /\ [][NextModeling]_vars

\* C9: on a table without the column oil_production_bbl the modeler raises
\* the configuration error (ValueError) and has then made no split, no fit,
\* no figure and no report.
C9_ConfigErrorBeforeFit ==
    (mexists /\ "oil_production_bbl" \notin mcols
             /\ mpc \notin {"load", "preprocess"}) =>
        /\ mpc = "failed"
        /\ merr = "ValueError"
        /\ mtrace = <<>>
        /\ df_model = <<>>

\* a table with predictors but without the target, after the run
C9_Witness ==
    /\ mcols = {"gas_production_mcf", "water_production_bbl", "field_name"}
    /\ mpc = "failed"
    /\ merr = "ValueError"

----------------------------------------------------------------------------
(* scripts/dashboard.py *)

\* df = load_data(input_path); on an exception main prints and returns.
\* df['date'] = pd.to_datetime(df['date'], errors='coerce')
\* date_range = pd.date_range(start=df['date'].min(), end=df['date'].max())
\* raises when no row has a date (min and max are NaT)
\* ... app.run(): the server now answers callbacks
DashLoad ==
    /\ dpc = "load"
    /\ IF dexists
       THEN /\ base' = [i \in 1..Len(dcsv) |->
                           [dcsv[i] EXCEPT !.date = ParseDate(dcsv[i].date)]]
            /\ dpc' = IF \E i \in 1..Len(dcsv) : ParseDate(dcsv[i].date) # Null
                      THEN "serving" ELSE "raised"
       ELSE /\ dpc' = "returned"
            /\ UNCHANGED base
    /\ UNCHANGED <<dexists, dcsv, dfield, dstart, dend, df_filtered, dresult,
                   sess>>
    /\ UNCHANGED <<orchVars, fsVars, cleanVars, modelVars>>

\* df_filtered[df_filtered['field_name'] == field]: the rows kept, by index
FieldEquals(t, rows, field) ==
    SelectSeq(rows, LAMBDA i : t[i].field_name = field)

InRangeOpenEnd(date, start_date, end_date) ==
    /\ date # Null
    /\ date[1] >= ParseDate(<<start_date>>)[1]
    /\ date[1] < ParseDate(<<end_date>>)[1]

\* (df_filtered['date'] >= start_date) & (df_filtered['date'] <= end_date)
\* on one date: the strings are read as dates; a comparison with NaT is
\* False
InRange(date, start_date, end_date) ==
    /\ date # Null
    /\ date[1] >= ParseDate(<<start_date>>)[1]
    /\ date[1] <= ParseDate(<<end_date>>)[1]

\* the filtering part of update_dashboard: the index labels of df_filtered
FilterRows(t, field, start_date, end_date) ==
    LET copy == [i \in 1..Len(t) |-> i]
        by_field == IF field # "all" THEN FieldEquals(t, copy, field)
                    ELSE copy
    IN  SelectSeq(by_field, LAMBDA i : InRange(t[i].date, start_date, end_date))

\* create_insights(df_filtered), by the rows of df_filtered: the sums and
\* means of no rows are 0 and NaN and format; the per-field sums of no rows
\* are an empty Series, and idxmax() of an empty Series raises ValueError.
create_insights(rows) == IF rows = <<>> THEN "ValueError" ELSE "insights"

\* update_dashboard(field, start_date, end_date): filters a copy of df,
\* builds the five figures, the KPI cards and the insights, and returns the
\* seven of them unless create_insights raised.
UpdateDashboard ==
    /\ dpc = "serving"
    /\ \E field \in Range(FieldNames) \cup {"all"},
          start_date \in Range(DateStrings), end_date \in Range(DateStrings) :
         /\ dfield' = field
         /\ dstart' = start_date
         /\ dend' = end_date
         /\ LET rows == FilterRows(base, field, start_date, end_date)
            IN  /\ df_filtered' =
                       [k \in 1..Len(rows) |->
                           [idx |-> rows[k],
                            field_name |-> base[rows[k]].field_name,
                            date |-> base[rows[k]].date]]
                /\ dresult' = IF create_insights(rows) = "ValueError"
                              THEN "ValueError" ELSE "outputs"
    /\ UNCHANGED <<dexists, dcsv, dpc, base, sess>>
    /\ UNCHANGED <<orchVars, fsVars, cleanVars, modelVars>>

\* the date fields of the file the dashboard loads
DashDateCells == {<<DateStrings[k]>> : k \in 1..Len(DateStrings)}
                   \cup {<<"not a date">>}

DashRows == [field_name : Range(FieldNames), date : DashDateCells]

\* dashboard.py main on a file (or on none), then any callbacks.
InitDash ==
    /\ OrchIdle
    /\ files = <<>>
    /\ today = "20250731"
    /\ now = MaxMtime + 1
    /\ CleanIdle
    /\ ModelIdle
    /\ \/ dexists = FALSE /\ dcsv = <<>>
       \/ dexists = TRUE /\ dcsv \in SeqsUpTo(DashRows, MaxDashRows)
    /\ dpc = "load"
    /\ base = <<>>
    /\ dfield = Unset
    /\ dstart = Unset
    /\ dend = Unset
    /\ df_filtered = <<>>
    /\ dresult = Unset
    /\ sess = <<>>

NextDash ==
    \/ DashLoad
    \/ UpdateDashboard

SpecDash == InitDash /\ [][NextDash]_vars

----------------------------------------------------------------------------
(* update_dashboard, statement by statement, in concurrent sessions.      *)
(* app.run serves each request in a thread of its own, so the callbacks  *)
(* of different sessions interleave; df (base) is the one object they     *)
(* share.                                                                 *)

Sessions == 1..MaxSessions

\* a session without a callback
NoCall ==
    [pc |-> "idle", field |-> Unset, start_date |-> Unset, end_date |-> Unset,
     df_filtered |-> <<>>, result |-> [kind |-> Unset, shown |-> <<>>]]

\* the filter values the sessions send
SessionArgs ==
    [field : {"A", "all"}, start_date : {DateStrings[1]},
     end_date : {DateStrings[1], DateStrings[2]}]

\* df.copy(): a new table with the rows of t under their index labels
copy(t) ==
    [i \in 1..Len(t) |->
        [idx |-> i, field_name |-> t[i].field_name, date |-> t[i].date]]

BaseAfterInPlace(t, local) ==
    [k \in 1..Len(local) |->
        [field_name |-> local[k].field_name, date |-> local[k].date]]

\* the table df names after a statement of update_dashboard has bound its
\* local df_filtered: copy() and boolean indexing build new tables, the
\* statement rebinds the local name, df is not written
BaseAfter(t, local) == t

\* df_filtered = df.copy()
CallCopy(s, args) ==
    /\ dpc = "serving"
    /\ sess[s].pc \in {"idle", "returned"}
    /\ LET local == copy(base)
       IN  /\ sess' = [sess EXCEPT ![s] =
                         [pc |-> "copied", field |-> args.field,
                          start_date |-> args.start_date,
                          end_date |-> args.end_date,
                          df_filtered |-> local,
                          result |-> [kind |-> Unset, shown |-> <<>>]]]
           /\ base' = BaseAfter(base, local)
    /\ UNCHANGED <<dexists, dcsv, dpc, dfield, dstart, dend, df_filtered,
                   dresult>>
    /\ UNCHANGED <<orchVars, fsVars, cleanVars, modelVars>>

\* if field != 'all':
\*     df_filtered = df_filtered[df_filtered['field_name'] == field]
CallByField(s) ==
    /\ sess[s].pc = "copied"
    /\ LET local == IF sess[s].field # "all"
                    THEN SelectSeq(sess[s].df_filtered,
                                   LAMBDA r : r.field_name = sess[s].field)
                    ELSE sess[s].df_filtered
       IN  /\ sess' = [sess EXCEPT ![s].pc = "by_field",
                                   ![s].df_filtered = local]
           /\ base' = BaseAfter(base, local)
    /\ UNCHANGED <<dexists, dcsv, dpc, dfield, dstart, dend, df_filtered,
                   dresult>>
    /\ UNCHANGED <<orchVars, fsVars, cleanVars, modelVars>>

\* df_filtered = df_filtered[(df_filtered['date'] >= start_date) &
\*                           (df_filtered['date'] <= end_date)]
CallByDate(s) ==
    /\ sess[s].pc = "by_field"
    /\ LET local == SelectSeq(sess[s].df_filtered,
                              LAMBDA r : InRange(r.date, sess[s].start_date,
                                                 sess[s].end_date))
       IN  /\ sess' = [sess EXCEPT ![s].pc = "by_date",
                                   ![s].df_filtered = local]
           /\ base' = BaseAfter(base, local)
    /\ UNCHANGED <<dexists, dcsv, dpc, dfield, dstart, dend, df_filtered,
                   dresult>>
    /\ UNCHANGED <<orchVars, fsVars, cleanVars, modelVars>>

\* the five figures, create_kpis, create_insights, return: all computed
\* from the local df_filtered
CallReturn(s) ==
    /\ sess[s].pc = "by_date"
    /\ sess' = [sess EXCEPT
                  ![s].pc = "returned",
                  ![s].result =
                      IF create_insights(sess[s].df_filtered) = "ValueError"
                      THEN [kind |-> "ValueError", shown |-> <<>>]
                      ELSE [kind |-> "outputs",
                            shown |-> sess[s].df_filtered]]
    /\ UNCHANGED <<dexists, dcsv, dpc, base, dfield, dstart, dend,
                   df_filtered, dresult>>
    /\ UNCHANGED <<orchVars, fsVars, cleanVars, modelVars>>

SessionCopy == \E s \in Sessions, args \in SessionArgs : CallCopy(s, args)

SessionByField == \E s \in Sessions : CallByField(s)

SessionByDate == \E s \in Sessions : CallByDate(s)

SessionReturn == \E s \in Sessions : CallReturn(s)

\* the rows of the file the sessions' dashboard loads
SessionRows ==
    {[field_name |-> "A", date |-> <<DateStrings[1]>>],
     [field_name |-> "B", date |-> <<DateStrings[2]>>]}

\* dashboard.py main on a file (or on none), then callbacks from the
\* sessions, interleaved in any way
InitSessions ==
    /\ OrchIdle
    /\ files = <<>>
    /\ today = "20250731"
    /\ now = MaxMtime + 1
    /\ CleanIdle
    /\ ModelIdle
    /\ \/ dexists = FALSE /\ dcsv = <<>>
       \/ dexists = TRUE /\ dcsv \in SeqsUpTo(SessionRows, MaxDashRows)
    /\ dpc = "load"
    /\ base = <<>>
    /\ dfield = Unset
    /\ dstart = Unset
    /\ dend = Unset
    /\ df_filtered = <<>>
    /\ dresult = Unset
    /\ sess = [s \in Sessions |-> NoCall]

NextSessions ==
    \/ DashLoad
    \/ SessionCopy
    \/ SessionByField
    \/ SessionByDate
    \/ SessionReturn

SpecSessions == InitSessions /\ [][NextSessions]_vars

\* the day a date-picker string names
Day(s) == CHOOSE k \in 1..Len(DateStrings) : DateStrings[k] = s

\* C10: after update_dashboard(field, start, end) df_filtered holds exactly
\* the rows of the base table whose field_name is the selected field (any
\* field for 'all') and whose date lies in [start, end], each once, in the
\* order of the base table and as they are in the base table.
C10_FilterExact ==
    dresult # Unset =>
        LET Wanted(i) ==
                /\ dfield = "all" \/ base[i].field_name = dfield
                /\ base[i].date # Null
                /\ Day(dstart) <= base[i].date[1]
                /\ base[i].date[1] <= Day(dend)
        IN  /\ \A i \in 1..Len(base) :
                 Wanted(i) <=> \E k \in 1..Len(df_filtered) :
                                   df_filtered[k].idx = i
            /\ \A k \in 1..Len(df_filtered) :
                 /\ df_filtered[k].idx \in 1..Len(base)
                 /\ df_filtered[k].field_name =
                        base[df_filtered[k].idx].field_name
                 /\ df_filtered[k].date = base[df_filtered[k].idx].date
            /\ \A j, k \in 1..Len(df_filtered) :
                 j < k => df_filtered[j].idx < df_filtered[k].idx

\* field A and the range 01-02..01-03 on a table with a row of B inside
\* the range and a row of A on its last day: the second row alone is kept
C10_Witness ==
    /\ dfield = "A"
    /\ dstart = DateStrings[2]
    /\ dend = DateStrings[3]
    /\ Len(base) = 2
    /\ base[1] = [field_name |-> "B", date |-> <<2>>]
    /\ base[2] = [field_name |-> "A", date |-> <<3>>]
    /\ Len(df_filtered) = 1
    /\ df_filtered[1].idx = 2

\* C11: when the field and date-range filters select no row of the base
\* table, update_dashboard completes without raising and returns its seven
\* outputs.
C11_EmptySelectionReturns ==
    (dresult # Unset /\ df_filtered = <<>>) => dresult = "outputs"

----------------------------------------------------------------------------
(* Claims about the cleaned files, checked under SpecRuns *)

\* the dates on which a run of the cleaner completed
LoggedDates == {runlog[i].date : i \in 1..Len(runlog)}

\* the last completed run of a date
LastRun(d) ==
    runlog[Max({i \in 1..Len(runlog) : runlog[i].date = d})]

\* C12: after any sequence of cleaner runs, data/processed holds exactly one
\* cleaned file per date on which a run completed, named by that date; each
\* file holds the output of the last run completed on its date, so a later
\* run of the same date has replaced it and runs of other dates have left
\* it unchanged.
C12_OneFilePerRunDate ==
    /\ Glob(files) = {CleanedPath(d) : d \in LoggedDates}
    /\ Cardinality(Glob(files)) = Cardinality(LoggedDates)
    /\ DOMAIN written = Glob(files)
    /\ \A d \in LoggedDates : written[CleanedPath(d)] = LastRun(d).out

\* two runs on 20250731 with different outputs, then one on 20250801
C12_Witness ==
    /\ Len(runlog) = 3
    /\ runlog[1].date = "20250731"
    /\ runlog[2].date = "20250731"
    /\ runlog[3].date = "20250801"
    /\ runlog[1].out # runlog[2].out
    /\ written[CleanedPath("20250731")] = runlog[2].out
    /\ written[CleanedPath("20250801")] = runlog[3].out
    /\ files[CleanedPath("20250731")] < files[CleanedPath("20250801")]

\* C17: the cleaner writes only as its last step: every step of a run
\* other than the one that completes it leaves the cleaned files, what
\* they hold and the result of get_latest_cleaned_file as they were, and a
\* run that has failed takes no further step; so a run that fails in
\* loading or in outlier handling leaves data/processed as it found it.
C17_WritesOnlyOnCompletion ==
    [][ /\ cpc' # "done" =>
             /\ files' = files
             /\ written' = written
             /\ get_latest_cleaned_file(files') = get_latest_cleaned_file(files)
        /\ cpc = "failed" => cpc' \in {"failed", "load"} ]_vars

\* a run completed and wrote its file; the next run loaded a raw file with
\* a text production column and failed in handle_outliers: the first
\* run's file is all there is, as the first run wrote it
C17_Witness ==
    /\ Len(runlog) = 1
    /\ calls = 1
    /\ cpc = "failed"
    /\ df # EmptyDf
    /\ Glob(files) = {CleanedPath(runlog[1].date)}
    /\ written[CleanedPath(runlog[1].date)] = runlog[1].out
    /\ files[CleanedPath(runlog[1].date)] < now

----------------------------------------------------------------------------
(* Claims about the rows the cleaner keeps, checked under SpecCleanText *)

\* the raw table after date parsing: the date column holds dates and NaT
RawParsed ==
    [raw EXCEPT !.cols = [c \in 1..Len(raw.cols) |->
        IF raw.names[c] = "Date"
        THEN Column("datetime64", 1,
                    [r \in 1..NRows(raw) |->
                        IF raw.cols[c].cells[r] \in {<<DateStrings[k]>> :
                                                      k \in 1..Len(DateStrings)}
                        THEN <<Day(raw.cols[c].cells[r][1])>> ELSE Null])
        ELSE raw.cols[c]]]

\* the raw rows without a null in a non-numeric column after date parsing
CompleteRows ==
    {r \in 1..NRows(raw) :
        \A c \in 1..Len(raw.cols) :
            IsNumeric(RawParsed.cols[c]) \/ RawParsed.cols[c].cells[r] # Null}

\* the raw row an output row came from, by its well id
Origin(k) ==
    CHOOSE r \in 1..NRows(raw) : raw.cols[1].cells[r] = df.cols[1].cells[k]

\* C14: the cleaner does not fail on a raw file that exists, whatever its
\* dates; its output has no null in a non-numeric column, the date column
\* included; the output rows are exactly the raw rows that have no null in
\* a non-numeric column after date parsing (an unparseable date counting as
\* null), each once, in the order of the raw file, with their dates and texts.
C14_CompleteRowsKept ==
    /\ cpc = "failed" => ~raw_exists
    /\ cpc = "done" =>
        /\ \A c \in 1..Len(df.cols) :
             ~IsNumeric(df.cols[c]) => ~HasNull(df.cols[c])
        /\ NRows(df) = Cardinality(CompleteRows)
        /\ \A k \in 1..NRows(df) :
             /\ Origin(k) \in CompleteRows
             /\ \A c \in 1..Len(df.cols) :
                  ~IsNumeric(df.cols[c]) =>
                      df.cols[c].cells[k] = RawParsed.cols[c].cells[Origin(k)]
        /\ \A j, k \in 1..NRows(df) : j < k => Origin(j) < Origin(k)

\* three rows, the second with an unparseable date: the first and the
\* third are the output, in that order
C14_Witness ==
    /\ cpc = "done"
    /\ NRows(raw) = 3
    /\ raw.cols[2].cells =
           <<<<DateStrings[2]>>, <<"not a date">>, <<DateStrings[1]>>>>
    /\ ~HasNull(raw.cols[3])
    /\ df.cols[1].cells = <<<<"W1">>, <<"W3">>>>
    /\ df.cols[2].cells = <<<<2>>, <<1>>>>

----------------------------------------------------------------------------
(* Claims about concurrent callbacks, checked under SpecSessions *)

\* the table main loaded: the rows of the file, their dates parsed
Loaded ==
    [i \in 1..Len(dcsv) |->
        [field_name |-> dcsv[i].field_name,
         date |-> IF dcsv[i].date[1] \in Range(DateStrings)
                  THEN <<Day(dcsv[i].date[1])>> ELSE Null]]

\* the rows a call with these filter values is to show, from the loaded
\* table alone
Selection(field, start_date, end_date) ==
    LET wanted == {i \in 1..Len(Loaded) :
                      /\ field = "all" \/ Loaded[i].field_name = field
                      /\ Loaded[i].date # Null
                      /\ Day(start_date) <= Loaded[i].date[1]
                      /\ Loaded[i].date[1] <= Day(end_date)}
        order == SortSeq(SelectSeq([i \in 1..Len(Loaded) |-> i],
                                   LAMBDA i : i \in wanted),
                         LAMBDA a, b : a < b)
    IN  [k \in 1..Len(order) |->
            [idx |-> order[k], field_name |-> Loaded[order[k]].field_name,
             date |-> Loaded[order[k]].date]]

\* C15: once loaded, the base table is never modified, whatever callbacks
\* run and however the sessions interleave; a callback that has returned
\* has filtered its own copy, and its result is the one its own field,
\* start_date and end_date give on the loaded table, whatever the other
\* sessions are doing.
C15_CallbacksIsolated ==
    dpc = "serving" =>
        /\ base = Loaded
        /\ \A s \in Sessions :
             sess[s].pc = "returned" =>
                 LET rows == Selection(sess[s].field, sess[s].start_date,
                                       sess[s].end_date)
                 IN  /\ sess[s].df_filtered = rows
                     /\ sess[s].result =
                            IF rows = <<>>
                            THEN [kind |-> "ValueError", shown |-> <<>>]
                            ELSE [kind |-> "outputs", shown |-> rows]

\* session 1 has returned the rows of field A while session 2, with other
\* filter values, is in the middle of its call
C15_Witness ==
    /\ Len(base) = 2
    /\ sess[1].pc = "returned"
    /\ sess[1].field = "A"
    /\ sess[1].result.kind = "outputs"
    /\ Len(sess[1].result.shown) = 1
    /\ sess[2].pc = "by_field"
    /\ sess[2].field = "all"
    /\ Len(sess[2].df_filtered) = 2

====
